---- MODULE Spec2Model ----
(***************************************************************************)
(* Wide_ResNet_Cifar (module/wide_resnet.py): construction of the network  *)
(* and the three operations that load per-candidate checkpoints into the   *)
(* named sub-blocks layer1, layer2, layer3, fc.                            *)
(*                                                                         *)
(* Tensors are abstracted to their provenance: a parameter's value is the  *)
(* record [ckpt |-> n, key |-> k] saying "the tensor stored under key k in *)
(* checkpoint number n" (ckpt 0 is the constructor's initialisation).      *)
(* A state dict keeps one "weight" per module (and "bias" for fc); the     *)
(* other tensors of a module travel with it under the same prefix.         *)
(* Dictionaries are sequences of <<key, value>> pairs in insertion order.  *)
(***************************************************************************)
EXTENDS Integers, Sequences, FiniteSets, TLC

VARIABLES pc, depth, width, layers, inplanes, stages, fc_in, ops,
          params, files, lastcall, trace

vars == <<pc, depth, width, layers, inplanes, stages, fc_in, ops,
          params, files, lastcall, trace>>

(***************************** bounds **************************************)
\* depths tried by the factory are 0..MaxDepth
MaxDepth == 26
\* widths tried are 1..MaxWidth
MaxWidth == 3
\* candidates tried are 0..MaxCand and the last one, num_ops - 1
MaxCand == 1
\* the loading specifications start from networks of 1..MaxBlocks blocks a stage
MaxBlocks == 2

(************************* program constants *******************************)
num_ops == 350
base_number == 350
expansion == 1
k_blocks == 4

None == "None"
\* downsample = None
NoModule == [module |-> "None"]
Unset == "AttributeError"

block_names == [i \in 0..(k_blocks - 1) |->
                  CASE i = 0 -> "layer1" [] i = 1 -> "layer2"
                    [] i = 2 -> "layer3" [] OTHER -> "fc"]

Max(a, b) == IF a >= b THEN a ELSE b

(*************************** construction **********************************)
BasicBlock(inpl, planes, stride, downsample) ==
    [inplanes |-> inpl, planes |-> planes, stride |-> stride,
     downsample |-> downsample]

make_downsample_stride_only(inpl, planes, stride) ==
    IF stride # 1
    THEN [inplanes |-> inpl, planes |-> planes * expansion, stride |-> stride]
    ELSE NoModule

\* the downsample path of _make_layer: a 1x1 convolution and a batch norm
make_downsample(inpl, planes, stride) ==
    IF stride # 1 \/ inpl # planes * expansion
    THEN [inplanes |-> inpl, planes |-> planes * expansion, stride |-> stride]
    ELSE NoModule

\* the blocks appended by "for _ in range(1, int(blocks))"
rest_blocks(planes, blocks) ==
    [j \in 1..Max(0, blocks - 1) |->
        BasicBlock(planes * expansion, planes, 1, NoModule)]

\* _make_layer(block, planes, blocks, stride): the stage built, and self.inplanes after
make_layer(inpl, planes, blocks, stride) ==
    [stage |-> <<BasicBlock(inpl, planes, stride,
                            make_downsample(inpl, planes, stride))>>
               \o rest_blocks(planes, blocks),
     inplanes |-> planes * expansion]

(************************ state-dict key names ******************************)
Digit(j) == <<"0", "1", "2", "3", "4", "5", "6", "7", "8", "9">>[j + 1]

\* the keys one BasicBlock contributes under its prefix, in registration order
block_keys(prefix, blk) ==
    <<prefix \o "conv1.weight", prefix \o "bn1.weight",
      prefix \o "conv2.weight", prefix \o "bn2.weight">>
    \o (IF blk.downsample # NoModule
        THEN <<prefix \o "downsample.0.weight", prefix \o "downsample.1.weight">>
        ELSE << >>)

RECURSIVE stage_keys(_, _, _)
stage_keys(name, stage, j) ==
    IF j > Len(stage) THEN << >>
    ELSE block_keys(name \o "." \o Digit(j - 1) \o ".", stage[j])
         \o stage_keys(name, stage, j + 1)

\* self.state_dict().keys() of the whole network, in registration order
state_keys(stgs) ==
    <<"conv1.weight", "bn1.weight">>
    \o stage_keys("layer1", stgs[1], 1)
    \o stage_keys("layer2", stgs[2], 1)
    \o stage_keys("layer3", stgs[3], 1)
    \o <<"fc.weight", "fc.bias">>

Range(s) == {s[i] : i \in 1..Len(s)}

\* str.startswith
startswith(key, prefix) ==
    Len(key) >= Len(prefix) /\ SubSeq(key, 1, Len(prefix)) = prefix

\* the slice key[n:]
slice_from(key, n) == SubSeq(key, n + 1, Len(key))

\* getattr(self, block_name).state_dict().keys(): the sub-block's own names
own_keys(stgs, block_name) ==
    {slice_from(key, Len(block_name) + 1) :
        key \in {x \in Range(state_keys(stgs)) : startswith(x, block_name \o ".")}}

(***************************** dictionaries ********************************)
dict_keys(d) == {d[i][1] : i \in 1..Len(d)}

dict_index(d, key) == CHOOSE i \in 1..Len(d) : d[i][1] = key

dict_get(d, key) == d[dict_index(d, key)][2]

\* d[key] = value: an existing key keeps its place, a new key goes last
dict_set(d, key, value) ==
    IF key \in dict_keys(d)
    THEN [d EXCEPT ![dict_index(d, key)] = <<key, value>>]
    ELSE Append(d, <<key, value>>)

RECURSIVE dict_update_from(_, _, _)
dict_update_from(d, other, i) ==
    IF i > Len(other) THEN d
    ELSE dict_update_from(dict_set(d, other[i][1], other[i][2]), other, i + 1)

\* dict.update(other)
dict_update(d, other) == dict_update_from(d, other, 1)

(****************************** checkpoints ********************************)
\* the candidates the bounded model tries, and the numbers of their checkpoints
Cands == (0..MaxCand) \cup {num_ops - 1}

CkptNums == {c + 1 : c \in Cands} \cup {base_number}

\* what a file of weight_root may hold
Variants == {"state_dict", "backbone", "fc_state_dict", "two_heads",
             "data_parallel", "underscored", "mixed"}

RECURSIVE underscore(_)
\* key.replace(".", "_"), the flat names some exports use
underscore(key) ==
    IF Len(key) = 0 THEN ""
    ELSE (IF SubSeq(key, 1, 1) = "." THEN "_" ELSE SubSeq(key, 1, 1))
         \o underscore(SubSeq(key, 2, Len(key)))

\* the keys of a checkpoint file, in the order they were saved
file_keys(variant, stgs) ==
    LET full == state_keys(stgs) IN
    CASE variant = "state_dict" -> full
      [] variant = "backbone" -> SubSeq(full, 1, Len(full) - 2)
      [] variant = "fc_state_dict" -> <<"weight", "bias">>
      [] variant = "two_heads" -> full \o <<"fc2.weight", "fc2.bias">>
      [] variant = "underscored" -> [i \in 1..Len(full) |-> underscore(full[i])]
      [] variant = "mixed" -> full \o [i \in 1..Len(full) |-> underscore(full[i])]
      [] OTHER -> [i \in 1..Len(full) |-> "module." \o full[i]]

Tensor(n, key) == [ckpt |-> n, key |-> key]

\* torch.load of "<weight_root>/<model_name>_cross_entropy_<n>.model"
torch_load(fls, stgs, n) ==
    LET keys == file_keys(fls[n], stgs)
    IN [i \in 1..Len(keys) |-> <<keys[i], Tensor(n, keys[i])>>]

(***************************** load_state_dict *****************************)
\* module.load_state_dict(d, strict) for the module registered under prefix,
\* whose own parameter names are own: every name the dictionary holds is copied,
\* and a strict load raises afterwards if the key sets differ
load_state_dict(prms, prefix, own, d, strict) ==
    LET hit == own \cap dict_keys(d)
    IN [params |-> [key \in DOMAIN prms |->
                      IF startswith(key, prefix)
                         /\ slice_from(key, Len(prefix)) \in hit
                      THEN dict_get(d, slice_from(key, Len(prefix)))
                      ELSE prms[key]],
        applied |-> {<<r, dict_get(d, r)>> : r \in hit},
        error |-> strict /\ own # dict_keys(d)]

strip_len_seven(block_name) == 7

\* characters dropped from a key: k[3:] for fc, k[7:] for the layers
strip_len(block_name) == IF block_name = "fc" THEN 3 ELSE 7

RECURSIVE comprehension(_, _, _, _)
\* {k[n:]: v for k, v in model_dict.items() if k.startswith(block_name)}
comprehension(model_dict, block_name, i, acc) ==
    IF i > Len(model_dict) THEN acc
    ELSE comprehension(model_dict, block_name, i + 1,
            IF startswith(model_dict[i][1], block_name)
            THEN dict_set(acc, slice_from(model_dict[i][1], strip_len(block_name)),
                          model_dict[i][2])
            ELSE acc)

\* the dictionary handed to the sub-block: the checkpoint with the stripped
\* entries merged in
merged_dict(model_dict, block_name) ==
    dict_update(model_dict, comprehension(model_dict, block_name, 1, << >>))

load_block_whole(prms, stgs, fls, block_name, n) ==
    load_state_dict(prms, "", Range(state_keys(stgs)),
                    merged_dict(torch_load(fls, stgs, n), block_name), FALSE)

\* the body of "for block_name in self.block_names" for checkpoint number n
load_block(prms, stgs, fls, block_name, n) ==
    load_state_dict(prms, block_name \o ".", own_keys(stgs, block_name),
                    merged_dict(torch_load(fls, stgs, n), block_name), FALSE)

\* self.load_state_dict(torch.load(<checkpoint n>), strict)
load_whole(prms, stgs, fls, n, strict) ==
    load_state_dict(prms, "", Range(state_keys(stgs)), torch_load(fls, stgs, n), strict)

Entry(target, n, res) == [target |-> target, ckpt |-> n, applied |-> res.applied]

(************************** the load operations ****************************)
RECURSIVE block_loop(_, _, _, _, _, _)
\* for block_name in self.block_names: idx = self.block_names.index(block_name);
\* load checkpoint numbers[idx] into the sub-block
block_loop(prms, stgs, fls, numbers, idx, tr) ==
    IF idx >= k_blocks THEN [params |-> prms, trace |-> tr]
    ELSE LET res == load_block(prms, stgs, fls, block_names[idx], numbers[idx])
         IN block_loop(res.params, stgs, fls, numbers, idx + 1,
                       Append(tr, Entry(block_names[idx], numbers[idx], res)))

\* the checkpoint number load_combination formats for block idx
lc_number(opsattr, index, idx) == opsattr[index[idx]] + 1

\* the checkpoint number load_combination_weight formats for block idx
lcw_number(combination, idx) == combination[0] + 1

lgw_number_first(combination, idx) == combination[0] + 1

\* the checkpoint number load_gumbel_weight formats for block idx
lgw_number(combination, idx) == combination[idx] + 1

\* load_combination(index); self.ops is read in the first pass of the loop
load_combination(prms, stgs, fls, opsattr, index) ==
    LET base == load_whole(prms, stgs, fls, base_number, FALSE)
        tr == <<Entry("", base_number, base)>>
    IN IF opsattr = Unset
       THEN [params |-> base.params, trace |-> tr,
             status |-> "AttributeError", ret |-> None]
       ELSE LET loop == block_loop(base.params, stgs, fls,
                           [idx \in 0..(k_blocks - 1) |-> lc_number(opsattr, index, idx)],
                           0, tr)
            IN [params |-> loop.params, trace |-> loop.trace, status |-> "returned",
                ret |-> [idx \in 0..(k_blocks - 1) |-> opsattr[index[idx]]]]

\* load_combination_weight(combination, weight_folder, model_name)
load_combination_weight(prms, stgs, fls, combination) ==
    LET base == load_whole(prms, stgs, fls, base_number, FALSE)
        loop == block_loop(base.params, stgs, fls,
                    [idx \in 0..(k_blocks - 1) |-> lcw_number(combination, idx)],
                    0, <<Entry("", base_number, base)>>)
    IN [params |-> loop.params, trace |-> loop.trace, status |-> "returned",
        ret |-> None]

\* torch.argmax(weights, -1): the first index of a maximal value in each row
argmax(weights) ==
    [i \in DOMAIN weights |->
        CHOOSE c \in DOMAIN weights[i] :
            \A c2 \in DOMAIN weights[i] :
                \/ weights[i][c2] < weights[i][c]
                \/ weights[i][c2] = weights[i][c] /\ c <= c2]

\* load_gumbel_weight(), weights being what self.arch_weights(cat=False) returned
load_gumbel_weight(prms, stgs, fls, weights) ==
    LET combination == argmax(weights)
        first == lgw_number(combination, 0)
        base == load_whole(prms, stgs, fls, first, TRUE)
        tr == <<Entry("", first, base)>>
    IN IF base.error
       THEN [params |-> base.params, trace |-> tr,
             status |-> "RuntimeError", ret |-> None]
       ELSE LET loop == block_loop(base.params, stgs, fls,
                           [idx \in 0..(k_blocks - 1) |-> lgw_number(combination, idx)],
                           0, tr)
            IN [params |-> loop.params, trace |-> loop.trace, status |-> "returned",
                ret |-> combination]

(******************************* the state *********************************)
Depths == 0..MaxDepth
Widths == 1..MaxWidth

NoCall == [op |-> None, arg |-> None, status |-> None, ret |-> None]

\* the rows arch_weights can return over the candidates tried: a row peaked at
\* one candidate, or a row of equal values
WeightRows == {[c \in Cands |-> IF c = h THEN 1 ELSE 0] : h \in Cands}
              \cup {[c \in Cands |-> 1]}

init_params(stgs) == [key \in Range(state_keys(stgs)) |-> Tensor(0, key)]

\* before wide_resnet_cifar is called
InitBuild ==
    /\ pc = "start"
    /\ depth = 0 /\ width = 0 /\ layers = << >> /\ inplanes = 0
    /\ stages = << >> /\ fc_in = 0
    /\ ops = Unset
    /\ params = << >>
    /\ files = [n \in CkptNums |-> "state_dict"]
    /\ lastcall = NoCall
    /\ trace = << >>

\* wide_resnet_cifar(depth, width): the assertion, then the first lines of __init__
wide_resnet_cifar ==
    /\ pc = "start"
    /\ \E d \in Depths, w \in Widths :
          /\ depth' = d /\ width' = w
          /\ IF (d - 2) % 6 # 0
             THEN /\ pc' = "AssertionError"
                  /\ UNCHANGED <<layers, inplanes>>
             ELSE /\ pc' = "__init__"
                  /\ layers' = [s \in 1..3 |-> (d - 2) \div 6]
                  /\ inplanes' = 16
    /\ UNCHANGED <<stages, fc_in, ops, params, files, lastcall, trace>>

stage_planes(s, wfactor) == (CASE s = 1 -> 16 [] s = 2 -> 32 [] OTHER -> 64) * wfactor
stage_stride(s) == IF s = 1 THEN 1 ELSE 2

\* self.layer<s> = self._make_layer(block, planes, layers[s - 1], stride)
init_layer ==
    /\ pc \in {"__init__", "layer1", "layer2"}
    /\ LET s == Len(stages) + 1
           made == make_layer(inplanes, stage_planes(s, width), layers[s], stage_stride(s))
       IN /\ stages' = Append(stages, made.stage)
          /\ inplanes' = made.inplanes
          /\ pc' = block_names[s - 1]
    /\ UNCHANGED <<depth, width, layers, fc_in, ops, params, files, lastcall, trace>>

\* self.fc = nn.Linear(64*block.expansion*wfactor, num_classes) and the rest of __init__
init_fc ==
    /\ pc = "layer3"
    /\ fc_in' = 64 * expansion * width
    /\ params' = init_params(stages)
    /\ pc' = "built"
    /\ UNCHANGED <<depth, width, layers, inplanes, stages, ops, files, lastcall, trace>>

NextBuild == wide_resnet_cifar \/ init_layer \/ init_fc

SpecBuild == InitBuild /\ [][NextBuild]_vars

\* the network wide_resnet_cifar(depth=d, width=w) returns
constructed(d, w) ==
    LET n == (d - 2) \div 6
        l1 == make_layer(16, stage_planes(1, w), n, stage_stride(1))
        l2 == make_layer(l1.inplanes, stage_planes(2, w), n, stage_stride(2))
        l3 == make_layer(l2.inplanes, stage_planes(3, w), n, stage_stride(3))
    IN [layers |-> [s \in 1..3 |-> n], stages |-> <<l1.stage, l2.stage, l3.stage>>,
        inplanes |-> l3.inplanes, fc_in |-> 64 * expansion * w]

\* the networks the loading specifications start from
LoadDepths == {6 * n + 2 : n \in 1..MaxBlocks}
LoadWidths == {1, 2}

Built(fls) ==
    /\ pc = "built"
    /\ depth \in LoadDepths /\ width \in LoadWidths
    /\ layers = constructed(depth, width).layers
    /\ stages = constructed(depth, width).stages
    /\ inplanes = constructed(depth, width).inplanes
    /\ fc_in = constructed(depth, width).fc_in
    /\ ops = Unset
    /\ params = init_params(stages)
    /\ files \in fls
    /\ lastcall = NoCall
    /\ trace = << >>

\* a constructed network whose weight_root holds state dicts of this network
Init == Built([CkptNums -> {"state_dict"}])

\* a constructed network whose weight_root holds state dicts of this network,
\* but for at most one file, which is of any of the variants
InitKeys ==
    /\ Built({f \in [CkptNums -> Variants] :
                Cardinality({n \in CkptNums : f[n] # "state_dict"}) <= 1})
    /\ depth = 8 /\ width = 1

Blocks == 0..(k_blocks - 1)

\* the state a load operation leaves; a behaviour follows the first load
\* operation made on the constructed network
Called(op, arg, r) ==
    /\ pc' = "loaded"
    /\ params' = r.params
    /\ trace' = r.trace
    /\ lastcall' = [op |-> op, arg |-> arg, status |-> r.status, ret |-> r.ret]
    /\ UNCHANGED <<depth, width, layers, inplanes, stages, fc_in, ops, files>>

LoadCombination ==
    /\ pc = "built"
    /\ \E index \in [Blocks -> 0..MaxCand] :
          Called("load_combination", index,
                 load_combination(params, stages, files, ops, index))

LoadCombinationWeight ==
    /\ pc = "built"
    /\ \E combination \in [Blocks -> Cands] :
          Called("load_combination_weight", combination,
                 load_combination_weight(params, stages, files, combination))

LoadGumbelWeight ==
    /\ pc = "built"
    /\ \E weights \in [Blocks -> WeightRows] :
          Called("load_gumbel_weight", weights,
                 load_gumbel_weight(params, stages, files, weights))

Next == LoadGumbelWeight \/ LoadCombination \/ LoadCombinationWeight

Spec == Init /\ [][Next]_vars

SpecKeys == InitKeys /\ [][Next]_vars

(******************************** claims ***********************************)
Finished(op) == pc = "loaded" /\ lastcall.op = op

Returned(op) == Finished(op) /\ lastcall.status = "returned"

FullKey(block_name, r) == block_name \o "." \o r

\* every parameter of block idx holds the tensor checkpoint n stores for it
BlockFrom(idx, n) ==
    \A r \in own_keys(stages, block_names[idx]) :
        params[FullKey(block_names[idx], r)] = Tensor(n, FullKey(block_names[idx], r))

\* the first candidate at which a row of weights is largest
FirstMax(row) ==
    CHOOSE c \in DOMAIN row :
        /\ \A c2 \in DOMAIN row : row[c2] <= row[c]
        /\ \A c2 \in DOMAIN row : row[c2] = row[c] => c <= c2

\* C1: when load_gumbel_weight returns, with combination[i] the arg-max of row i
\* of the sampled weights, every block i holds the weights of block i in
\* checkpoint combination[i] + 1, and the call returned that combination.
C1_GumbelLoadsArgmax ==
    Returned("load_gumbel_weight") =>
        /\ lastcall.ret = [i \in Blocks |-> FirstMax(lastcall.arg[i])]
        /\ \A i \in Blocks : BlockFrom(i, FirstMax(lastcall.arg[i]) + 1)

C1_Witness ==
    /\ Returned("load_gumbel_weight")
    /\ lastcall.ret[0] = 0 /\ lastcall.ret[1] = num_ops - 1
    /\ lastcall.ret[2] = 1 /\ lastcall.ret[3] = 0
    /\ lastcall.arg[3] = [c \in Cands |-> 1]

\* C2: when load_combination_weight returns, every block i holds the weights of
\* block i in checkpoint combination[i] + 1.
C2_CombinationWeightPerBlock ==
    Returned("load_combination_weight") =>
        \A i \in Blocks : BlockFrom(i, lastcall.arg[i] + 1)

\* the entry of a checkpoint's keys that a sub-block takes for its parameter r:
\* the last key that starts with the block's name and is r once the name and one
\* more character are dropped, else the key r itself
Source(keys, block_name, r) ==
    LET stripped == {i \in 1..Len(keys) :
                        /\ startswith(keys[i], block_name)
                        /\ slice_from(keys[i], Len(block_name) + 1) = r}
    IN IF stripped # {}
       THEN keys[CHOOSE i \in stripped : \A j \in stripped : j <= i]
       ELSE IF r \in Range(keys) THEN r ELSE None

BlockEntries == {i \in 1..Len(trace) : trace[i].target # ""}

\* every key is a stem key or "<block name>.<rest>"
ClassKeys(keys) ==
    \A i \in 1..Len(keys) :
        \/ startswith(keys[i], "conv1.") \/ startswith(keys[i], "bn1.")
        \/ \E b \in Blocks : startswith(keys[i], block_names[b] \o ".")

\* the entries "B.<rest>" of the checkpoint, each under "<rest>"
PrefixedEntries(e) ==
    {<<r, Tensor(e.ckpt, FullKey(e.target, r))>> :
        r \in {x \in own_keys(stages, e.target) :
                 FullKey(e.target, x) \in Range(file_keys(files[e.ckpt], stages))}}

\* C3 as stated: for any checkpoint key set, the entries a sub-block B takes are
\* exactly the checkpoint's entries "B.<rest>", each under "<rest>".
C3_Original ==
    \A i \in BlockEntries : trace[i].applied = PrefixedEntries(trace[i])

\* C3 amended: for any checkpoint key set, a sub-block B takes for its parameter
\* r the last entry whose key starts with the characters of B and is r after
\* len(B) + 1 characters are dropped, else the entry whose key is r itself, else
\* nothing; when every key is a stem key or "<block name>.<rest>" these are
\* exactly the entries "B.<rest>", each under "<rest>".
C3_PrefixMatching ==
    \A i \in BlockEntries :
        LET e == trace[i]
            keys == file_keys(files[e.ckpt], stages)
        IN /\ e.applied =
                {<<r, Tensor(e.ckpt, Source(keys, e.target, r))>> :
                    r \in {x \in own_keys(stages, e.target) :
                             Source(keys, e.target, x) # None}}
           /\ ClassKeys(keys) => e.applied = PrefixedEntries(e)

C3_Witness ==
    \E i \in BlockEntries :
        /\ trace[i].target = "fc"
        /\ files[trace[i].ckpt] = "mixed"
        /\ <<"weight", Tensor(trace[i].ckpt, "fc_weight")>> \in trace[i].applied

IncomingPlanes(s) == IF s = 1 THEN 16 ELSE stage_planes(s - 1, width)

\* all of C4 but the number of blocks
C4_Shape ==
    /\ pc = "AssertionError" => (depth - 2) % 6 # 0
    /\ pc \notin {"start", "AssertionError"} => (depth - 2) % 6 = 0
    /\ pc = "built" =>
          /\ fc_in = 64 * width
          /\ \A s \in 1..3 :
                /\ Len(stages[s]) >= 1
                /\ stages[s][1].inplanes = IncomingPlanes(s)
                /\ stages[s][1].stride = stage_stride(s)
                /\ (stages[s][1].downsample # NoModule) <=>
                      (stage_stride(s) # 1
                          \/ IncomingPlanes(s) # stage_planes(s, width) * expansion)
                /\ \A j \in 1..Len(stages[s]) :
                      /\ stages[s][j].planes = stage_planes(s, width)
                      /\ j > 1 => /\ stages[s][j].stride = 1
                                  /\ stages[s][j].downsample = NoModule
                                  /\ stages[s][j].inplanes = stage_planes(s, width)

\* C4 as stated: a depth with depth - 2 not a multiple of 6 is rejected, and
\* otherwise each stage has exactly (depth - 2) / 6 blocks, only the first with
\* the stride and the downsample path, and the channels run 16, 16w, 32w, 64w.
C4_Original ==
    /\ C4_Shape
    /\ pc = "built" => \A s \in 1..3 : Len(stages[s]) = (depth - 2) \div 6

\* C4 amended: as stated, but each stage has max(1, (depth - 2) / 6) blocks:
\* the first block of a stage is always built.
C4_Construction ==
    /\ C4_Shape
    /\ pc = "built" => \A s \in 1..3 : Len(stages[s]) = Max(1, (depth - 2) \div 6)

C4_Witness ==
    /\ pc = "built" /\ depth = 2 /\ width = 1
    /\ Len(stages[1]) = 1 /\ stages[1][1].downsample = NoModule

\* C5: load_combination(index) on a constructed network loads checkpoint 350
\* into the network, then checkpoint ops[index[i]] + 1 into every block i, and
\* returns ops[index].
C5_LoadCombination ==
    Finished("load_combination") =>
        /\ lastcall.status = "returned"
        /\ trace[1] = [target |-> "", ckpt |-> base_number,
                       applied |-> trace[1].applied]
        /\ ops # Unset
        /\ \A i \in Blocks : BlockFrom(i, ops[lastcall.arg[i]] + 1)
        /\ lastcall.ret = [i \in Blocks |-> ops[lastcall.arg[i]]]

LoadOrder == <<"", "layer1", "layer2", "layer3", "fc">>

\* the number of the checkpoint the finished call loads into the whole network
BaseOf ==
    IF lastcall.op = "load_gumbel_weight"
    THEN FirstMax(lastcall.arg[0]) + 1
    ELSE base_number

StemKeys == {key \in DOMAIN params :
                \A b \in Blocks : ~startswith(key, block_names[b] \o ".")}

\* the whole network first, then layer1, layer2, layer3, fc; the stem left as
\* the base checkpoint has it
C6_OrderAndStem ==
    pc = "loaded" =>
        /\ Len(trace) >= 1 /\ Len(trace) <= Len(LoadOrder)
        /\ \A i \in 1..Len(trace) : trace[i].target = LoadOrder[i]
        /\ trace[1].ckpt = BaseOf
        /\ lastcall.status = "returned" =>
              /\ Len(trace) = Len(LoadOrder)
              /\ \A key \in StemKeys : params[key] = Tensor(BaseOf, key)

\* C6 as stated: base first, blocks in order, the stem from the base checkpoint,
\* and no block's weights come from the base checkpoint.
C6_Original ==
    /\ C6_OrderAndStem
    /\ (pc = "loaded" /\ lastcall.status = "returned") =>
          \A key \in DOMAIN params \ StemKeys : params[key].ckpt # BaseOf

\* C6 amended: base first, blocks in order, the stem from the base checkpoint,
\* and every block parameter holds what the block's own load applied, which is
\* the base checkpoint's own tensor when that load reads the same file.
C6_Ordering ==
    /\ C6_OrderAndStem
    /\ (pc = "loaded" /\ lastcall.status = "returned") =>
          \A b \in Blocks : \A r \in own_keys(stages, block_names[b]) :
              <<r, params[FullKey(block_names[b], r)]>> \in trace[b + 2].applied

C6_Witness ==
    /\ Returned("load_combination_weight")
    /\ trace[2].ckpt # base_number
    /\ trace[5].target = "fc"

====
